---- MODULE Spec2Model ----
(***************************************************************************)
(* The asynchronous generation pipeline of slidea: batch submission        *)
(* (create_presentation), the per-slide Celery task                        *)
(* (generate_single_slide_visual_task), the chord callback                 *)
(* (finalize_presentation_status_task), cancel_presentation and            *)
(* regenerate_slide_image_api, over one user row and one presentation.     *)
(*                                                                         *)
(* Every request and task works on ORM objects: an attribute is read when  *)
(* the row is loaded and written back as an absolute value at commit, so   *)
(* each handler is a read step followed by a commit step.                  *)
(***************************************************************************)
EXTENDS Integers, Sequences, FiniteSets, TLC

\* ------------------------------------------------------------- bounds
MaxSlides == 2
MaxDeliveries == 2

\* ------------------------------------------------- program constants
CREDITS_PER_SLIDE == 25
CREDITS_PER_REGENERATE == 25
max_retries == 3

InitialCredits == {10, 100}

PENDING_VISUALS == "pending_visuals"
VISUALS_COMPLETE == "visuals_complete"
GENERATION_FAILED == "generation_failed"
NO_ROW == "no_row"

Slides == 1..MaxSlides
NoSnap == [status |-> NO_ROW, token |-> FALSE, credits |-> 0]
NoRegen == [slide |-> 0, credits |-> 0]
NoResults == [isList |-> TRUE, items |-> << >>]

VARIABLES
    credits_remaining,   \* users.credits_remaining
    userExists,          \* the users row exists
    status,              \* presentations.status, NO_ROW while there is no row
    celery_chord_id,     \* presentations.celery_chord_id is not NULL
    nSlides,             \* number of slides rows of the presentation
    image_url,           \* the slides whose slides.image_url is not NULL
    text_content,        \* the slides whose title and text_content a regeneration rewrote
    image_gen_prompt,    \* the slides whose image_gen_prompt and applied_style_info
                         \* are not NULL
    desired_slide_count, \* form.slide_count.data of the submission
    credits_deducted,    \* the amount bound into the callback signature
    spc,                 \* position of the create_presentation request
    unit,                \* unit[i]: state of slide i's task, its retry count and
                         \* the number of times its message was delivered
    results,             \* the chord's result list handed to the callback
    fpc,                 \* position of the callback task
    fSnap,               \* the rows as the callback loaded them
    fPath,               \* the branch the last callback run took
    fRuns,               \* number of callback runs started
    cpc,                 \* position of the cancel_presentation request
    cSnap,               \* the rows as the cancel request loaded them
    rpc,                 \* position of the regenerate_slide_image_api request
    rSnap,               \* slide and balance as the regenerate request loaded them
    balance_before_submit,
    balance_after_submit,
    fRefunds,            \* refunds committed by the callback
    cRefunds,            \* refunds committed by cancel_presentation
    prompt,              \* a call of build_image_prompt: its arguments, then its result
    subscription,        \* users.stripe_price_id, subscription_status, subscription_plan_name
    hook                 \* the last customer.subscription.updated event handled and
                         \* the user's status and price id before it

vars == << credits_remaining, userExists, status, celery_chord_id, nSlides,
           image_url, text_content, image_gen_prompt, desired_slide_count, credits_deducted, spc, unit, results, fpc,
           fSnap, fPath,
           fRuns, cpc, cSnap, rpc, rSnap, balance_before_submit,
           balance_after_submit, fRefunds, cRefunds, prompt, subscription, hook >>

dbVars == << credits_remaining, userExists, status, celery_chord_id, nSlides, image_url,
            text_content, image_gen_prompt >>
submitVars == << desired_slide_count, credits_deducted, spc, balance_before_submit, balance_after_submit >>
finalVars == << results, fpc, fSnap, fPath, fRuns, fRefunds >>
cancelVars == << cpc, cSnap, cRefunds >>
regenVars == << rpc, rSnap >>
promptVars == << prompt >>
billingVars == << subscription, hook >>

NoPrompt == [pc |-> "none"]
NoSubscription ==
    [stripe_price_id |-> "none", subscription_status |-> "none",
     subscription_plan_name |-> "free"]
NoHook ==
    [events |-> 0, status |-> "none", price_id |-> "none",
     previous_status |-> "none", previous_price_id |-> "none"]

\* ------------------------------------------------------ create_presentation
\* Mutant: a submission requires no credits.
RequiredCredits_Free(slide_count) == 0

RequiredCredits(slide_count) == slide_count * CREDITS_PER_SLIDE

Max0(x) == IF x > 0 THEN x ELSE 0

\* Mutant: the debit is computed but the balance is written back unchanged.
Debit_NotApplied(balance, amount) == Max0(balance)

\* Mutant: the amount is charged twice and the result is not floored at zero.
Debit_TwiceNoFloor(balance, amount) == balance - amount - amount

Debit(balance, amount) == Max0(balance - amount)

Init ==
    /\ credits_remaining \in InitialCredits
    /\ userExists = TRUE
    /\ status = NO_ROW
    /\ celery_chord_id = FALSE
    /\ nSlides = 0
    /\ image_url = {}
    /\ text_content = {}
    /\ image_gen_prompt = image_url
    /\ desired_slide_count = 0
    /\ credits_deducted = 0
    /\ spc = "idle"
    /\ unit = [i \in Slides |-> [pc |-> "none", retries |-> 0, deliveries |-> 0,
                                 countdown |-> 0, cause |-> "none"]]
    /\ results = NoResults
    /\ fpc = "none"
    /\ fSnap = NoSnap
    /\ fPath = "none"
    /\ fRuns = 0
    /\ cpc = "idle"
    /\ cSnap = NoSnap
    /\ rpc = "idle"
    /\ rSnap = NoRegen
    /\ balance_before_submit = 0
    /\ balance_after_submit = 0
    /\ fRefunds = 0
    /\ cRefunds = 0
    /\ prompt = NoPrompt
    /\ subscription = NoSubscription
    /\ hook = NoHook

\* The request up to the commit that persists the debit, the presentation and
\* its slides.  generate_text_content returns at most desired_slide_count slides.
SubmitRejected ==
    /\ spc = "idle"
    /\ \E desired \in Slides :
          /\ credits_remaining < RequiredCredits(desired)
          /\ desired_slide_count' = desired
    /\ balance_before_submit' = credits_remaining
    /\ balance_after_submit' = credits_remaining
    /\ spc' = "rejected"
    /\ UNCHANGED << dbVars, credits_deducted, unit, finalVars, cancelVars, regenVars >>
    /\ UNCHANGED << promptVars, billingVars >>

\* The request fails after the debit was assigned and before the commit that
\* persists the presentation (missing manual title, invalid input method or
\* topic, no slide content, an exception): db.session.rollback() discards the
\* uncommitted debit, then the user is loaded again and credits_deducted is
\* added to the balance and committed.
SubmitFailsBeforePersist ==
    /\ spc = "idle"
    /\ \E desired \in Slides :
          /\ credits_remaining >= RequiredCredits(desired)
          /\ desired_slide_count' = desired
          /\ credits_remaining' = credits_remaining + RequiredCredits(desired)
    /\ balance_before_submit' = credits_remaining
    /\ balance_after_submit' = credits_remaining'
    /\ spc' = "failed_early"
    /\ UNCHANGED << userExists, status, celery_chord_id, nSlides, image_url, text_content, image_gen_prompt,
                    credits_deducted, unit, finalVars, cancelVars, regenVars >>
    /\ UNCHANGED << promptVars, billingVars >>

SubmitCommit ==
    /\ spc = "idle"
    /\ \E desired \in Slides, actual \in Slides :
          /\ actual <= desired
          /\ credits_remaining >= RequiredCredits(desired)
          /\ credits_remaining' = Debit(credits_remaining, RequiredCredits(desired))
          /\ desired_slide_count' = desired
          /\ credits_deducted' = RequiredCredits(desired)
          /\ nSlides' = actual
    /\ status' = PENDING_VISUALS
    /\ image_url' = {}
    /\ text_content' = {}
    /\ image_gen_prompt' = {}
    /\ balance_before_submit' = credits_remaining
    /\ balance_after_submit' = credits_remaining'
    /\ spc' = "committed"
    /\ UNCHANGED << userExists, celery_chord_id, unit, finalVars, cancelVars, regenVars >>
    /\ UNCHANGED << promptVars, billingVars >>

\* chord(group(slide_task_signatures))(callback_task)
LaunchChord ==
    /\ spc = "committed"
    /\ unit' = [i \in Slides |->
                  IF i <= nSlides THEN [pc |-> "queued", retries |-> 0, deliveries |-> 1,
                                        countdown |-> 0, cause |-> "none"]
                  ELSE unit[i]]
    /\ spc' = "launched"
    /\ UNCHANGED << dbVars, desired_slide_count, credits_deducted, balance_before_submit,
                    balance_after_submit, finalVars, cancelVars, regenVars >>
    /\ UNCHANGED << promptVars, billingVars >>

\* new_presentation.celery_chord_id = chord_result.id; db.session.commit()
StoreChordId ==
    /\ spc = "launched"
    /\ celery_chord_id' = TRUE
    /\ spc' = "done"
    /\ UNCHANGED << credits_remaining, userExists, status, nSlides, image_url, text_content, image_gen_prompt,
                    desired_slide_count, credits_deducted, balance_before_submit,
                    balance_after_submit, unit, finalVars, cancelVars, regenVars >>
    /\ UNCHANGED << promptVars, billingVars >>

\* ---------------------------------------- generate_single_slide_visual_task
Terminal(pc) == pc \in {"true", "false", "raised"}

\* The checks before the try block: a missing slide or presentation row
\* returns False, slide.image_url set returns True, a presentation already
\* GENERATION_FAILED returns False.
\* Mutant: a presentation already GENERATION_FAILED does not stop the task.
StartOutcome_IgnoresFailed(hasImage, presStatus) ==
    IF hasImage THEN "true"
    ELSE IF presStatus = NO_ROW THEN "false"
    ELSE "running"

\* Mutant: a missing slide or presentation row does not stop the task.
StartOutcome_NoRowCheck(hasImage, presStatus) ==
    IF hasImage THEN "true"
    ELSE IF presStatus = GENERATION_FAILED THEN "false"
    ELSE "running"

\* Mutant: the slide's existing image is not looked at.
StartOutcome_NoSkip(hasImage, presStatus) ==
    IF presStatus = NO_ROW THEN "false"
    ELSE IF presStatus = GENERATION_FAILED THEN "false"
    ELSE "running"

StartOutcome(hasImage, presStatus) ==
    IF hasImage THEN "true"
    ELSE IF presStatus = NO_ROW THEN "false"
    ELSE IF presStatus = GENERATION_FAILED THEN "false"
    ELSE "running"

\* self.retry(exc=e, max_retries=3): Task.retry signals Retry while
\* request.retries + 1 <= max_retries; beyond that, because exc is passed, it
\* re-raises exc itself (MaxRetriesExceededError is raised only without exc),
\* so the task ends in failure.
RetryOutcome(retries) == IF retries < max_retries THEN "queued" ELSE "raised"

\* presentation_fail.status != GENERATION_FAILED => GENERATION_FAILED
FastFail(presStatus) ==
    IF presStatus # NO_ROW /\ presStatus # GENERATION_FAILED
    THEN GENERATION_FAILED ELSE presStatus

\* retry_delay = 60 * (2 ** self.request.retries)
\* Mutant: the delay grows by 60 seconds with each retry.
retry_delay_Linear(retries) == 60 * (retries + 1)

retry_delay(retries) == 60 * (2 ^ retries)

\* TASK_RETRY_KWARGS['countdown'], the delay of a retry made by autoretry_for
TASK_RETRY_COUNTDOWN == 60

\* The countdown passed to self.retry by the handler of each error; an error
\* raised outside the try block is retried by autoretry_for.
countdown(kind, retries) ==
    IF kind = "RateLimitError" THEN retry_delay(retries)
    ELSE IF kind = "SQLAlchemyError_load" THEN TASK_RETRY_COUNTDOWN
    ELSE 30

\* The task's message after a call of retry for an error of this kind: queued
\* again with the countdown, or ended by raising once the retries are used up.
Retried(u, kind) ==
    IF RetryOutcome(u.retries) = "queued"
    THEN [pc |-> "queued", retries |-> u.retries + 1, deliveries |-> u.deliveries,
          countdown |-> countdown(kind, u.retries), cause |-> kind]
    ELSE [pc |-> "raised", retries |-> u.retries, deliveries |-> u.deliveries,
          countdown |-> 0, cause |-> "none"]

UnitStart(i) ==
    /\ unit[i].pc = "queued"
    /\ unit' = [unit EXCEPT ![i].pc =
                  StartOutcome(i \in image_url, IF i <= nSlides THEN status ELSE NO_ROW),
                            ![i].countdown = 0,
                            ![i].cause = "none"]
    /\ UNCHANGED << dbVars, submitVars, finalVars, cancelVars, regenVars >>
    /\ UNCHANGED << promptVars, billingVars >>

\* Mutant: the image reference is committed on its own, the prompt and the
\* style are left for a later write.
UnitSucceed_ImageOnly(i) ==
    /\ unit[i].pc = "running"
    /\ image_url' = image_url \cup {i}
    /\ unit' = [unit EXCEPT ![i].pc = "true"]
    /\ UNCHANGED << credits_remaining, userExists, status, celery_chord_id, nSlides,
                    text_content, image_gen_prompt, submitVars, finalVars, cancelVars,
                    regenVars >>
    /\ UNCHANGED << promptVars, billingVars >>

\* Mutant: the task writes the first slide of the presentation instead of the
\* slide whose id it was given.
UnitSucceed_WritesFirstSlide(i) ==
    /\ unit[i].pc = "running"
    /\ image_url' = image_url \cup {1}
    /\ image_gen_prompt' = image_gen_prompt \cup {1}
    /\ unit' = [unit EXCEPT ![i].pc = "true"]
    /\ UNCHANGED << credits_remaining, userExists, status, celery_chord_id, nSlides,
                    text_content, submitVars, finalVars, cancelVars, regenVars >>
    /\ UNCHANGED << promptVars, billingVars >>

\* generate_slide_image returned a path; the slide is committed.
UnitSucceed(i) ==
    /\ unit[i].pc = "running"
    /\ image_url' = image_url \cup {i}
    /\ image_gen_prompt' = image_gen_prompt \cup {i}
    /\ text_content' = text_content
    /\ unit' = [unit EXCEPT ![i].pc = "true"]
    /\ UNCHANGED << credits_remaining, userExists, status, celery_chord_id, nSlides,
                    submitVars, finalVars, cancelVars, regenVars >>
    /\ UNCHANGED << promptVars, billingVars >>

\* db.session.get of the slide or of the presentation raises SQLAlchemyError:
\* outside the try block, so autoretry_for retries the task with the countdown
\* of TASK_RETRY_KWARGS.
UnitLoadFails(i) ==
    /\ unit[i].pc = "queued"
    /\ unit' = [unit EXCEPT ![i] = Retried(unit[i], "SQLAlchemyError_load")]
    /\ UNCHANGED << dbVars, submitVars, finalVars, cancelVars, regenVars >>
    /\ UNCHANGED << promptVars, billingVars >>

\* generate_slide_image returned None.
UnitHelperNone(i) ==
    /\ unit[i].pc = "running"
    /\ unit' = [unit EXCEPT ![i].pc = "false"]
    /\ UNCHANGED << dbVars, submitVars, finalVars, cancelVars, regenVars >>
    /\ UNCHANGED << promptVars, billingVars >>

\* Mutant: the commit that raised is not rolled back, the slide's pending
\* attributes reach the database with the next flush.
UnitTransient_NoRollback(i) ==
    /\ unit[i].pc = "running"
    /\ image_url' = image_url \cup {i}
    /\ image_gen_prompt' = image_gen_prompt \cup {i}
    /\ unit' = [unit EXCEPT ![i] = Retried(unit[i], "SQLAlchemyError")]
    /\ UNCHANGED << credits_remaining, userExists, status, celery_chord_id, nSlides,
                    text_content, submitVars, finalVars, cancelVars, regenVars >>
    /\ UNCHANGED << promptVars, billingVars >>

\* RateLimitError, OpenAIError from the generator, SQLAlchemyError from the
\* commit: the session is rolled back and the task asks for a retry.
UnitTransient(i) ==
    /\ unit[i].pc = "running"
    /\ \E kind \in {"RateLimitError", "OpenAIError", "SQLAlchemyError"} :
          unit' = [unit EXCEPT ![i] = Retried(unit[i], kind)]
    /\ UNCHANGED << dbVars, submitVars, finalVars, cancelVars, regenVars >>
    /\ UNCHANGED << promptVars, billingVars >>

\* except Exception: the presentation is re-read and marked failed.
UnitUnexpected(i) ==
    /\ unit[i].pc = "running"
    /\ status' = FastFail(status)
    /\ unit' = [unit EXCEPT ![i].pc = "false"]
    /\ UNCHANGED << credits_remaining, userExists, celery_chord_id, nSlides, image_url, text_content, image_gen_prompt,
                    submitVars, finalVars, cancelVars, regenVars >>
    /\ UNCHANGED << promptVars, billingVars >>

\* The broker delivers the slide task's message again after the task ended.
RedeliverUnit(i) ==
    /\ Terminal(unit[i].pc)
    /\ unit[i].deliveries < MaxDeliveries
    /\ unit' = [unit EXCEPT ![i].pc = "queued",
                            ![i].deliveries = unit[i].deliveries + 1]
    /\ UNCHANGED << dbVars, submitVars, finalVars, cancelVars, regenVars >>
    /\ UNCHANGED << promptVars, billingVars >>

\* The chord: the callback is published once every header task has returned;
\* a header task that ended in failure makes the chord fail without calling it.
AllUnitsTerminal == \A i \in 1..nSlides : Terminal(unit[i].pc)

ChordResults == [isList |-> TRUE, items |-> [i \in 1..nSlides |-> unit[i].pc]]

ChordUnlock ==
    /\ spc \in {"launched", "done"}
    /\ fpc = "none"
    /\ AllUnitsTerminal
    /\ IF \E i \in 1..nSlides : unit[i].pc = "raised"
       THEN fpc' = "chord_error" /\ results' = results
       ELSE fpc' = "queued" /\ results' = ChordResults
    /\ UNCHANGED << dbVars, submitVars, unit, fSnap, fPath, fRuns, fRefunds,
                    cancelVars, regenVars >>
    /\ UNCHANGED << promptVars, billingVars >>

\* ---------------------------------------- finalize_presentation_status_task
\* sum(1 for result in valid_results if result is True); 0 when results is no list
successful_slides(res) ==
    IF res.isList
    THEN Cardinality({k \in DOMAIN res.items : res.items[k] = "true"})
    ELSE 0

\* count of the presentation's slides with image_url IS NOT NULL
actual_images_generated == Cardinality(image_url)

\* Mutant: the persisted images are not compared with the reported successes.
generation_successful_NoImageCheck(successes, images) == successes > 0

\* Mutant: the batch succeeds only when every expected slide reported success
\* (expected_slide_count is the number of slides persisted at submission).
generation_successful_AllExpected(successes, images) ==
    successes > 0 /\ successes >= nSlides /\ images >= successes

\* Mutant: the comparison with the persisted images is strict.
generation_successful_Strict(successes, images) == successes > 0 /\ images > successes

generation_successful(successes, images) == successes > 0 /\ images >= successes

final_status(res, images) ==
    IF generation_successful(successful_slides(res), images)
    THEN VISUALS_COMPLETE ELSE GENERATION_FAILED

\* Mutant: cancel refunds only the slides that have an image.
credits_to_refund_WithImages(slideCount) == Cardinality(image_url) * CREDITS_PER_SLIDE

\* Mutant: the refund is one slide's rate instead of the amount passed in.
Refund_OneSlideRate(loaded_balance, amount) == loaded_balance + CREDITS_PER_SLIDE

\* user.credits_remaining += credits_deducted, on the balance the task loaded
Refund(loaded_balance, amount) == loaded_balance + amount

\* Loads the presentation and the user; a missing presentation ends the task,
\* a missing user fails a pending presentation and ends the task.
FinalizeRead ==
    /\ fpc = "queued"
    /\ fRuns' = fRuns + 1
    /\ IF status = NO_ROW
       THEN /\ fpc' = "done" /\ fPath' = "no_presentation" /\ fSnap' = fSnap
            /\ UNCHANGED << status, celery_chord_id >>
       ELSE IF ~userExists
       THEN /\ fpc' = "done" /\ fPath' = "no_user" /\ fSnap' = fSnap
            /\ status' = IF status = PENDING_VISUALS THEN GENERATION_FAILED ELSE status
            /\ celery_chord_id' = IF status = PENDING_VISUALS THEN FALSE ELSE celery_chord_id
       ELSE /\ fpc' = "read" /\ fPath' = "none"
            /\ fSnap' = [status |-> status, token |-> celery_chord_id,
                         credits |-> credits_remaining]
            /\ UNCHANGED << status, celery_chord_id >>
    /\ UNCHANGED << credits_remaining, userExists, nSlides, image_url, text_content, image_gen_prompt, submitVars,
                    unit, results, fRefunds, cancelVars, regenVars >>
    /\ UNCHANGED << promptVars, billingVars >>

\* The presentation was loaded as GENERATION_FAILED: refund, then clear the chord id.
\* A refund commit that raises is rolled back and logged.
FinalizeAlreadyFailed ==
    /\ fpc = "read"
    /\ fSnap.status = GENERATION_FAILED
    /\ \E refundRaises \in BOOLEAN :
          IF credits_deducted > 0 /\ ~refundRaises
          THEN /\ credits_remaining' = Refund(fSnap.credits, credits_deducted)
               /\ fRefunds' = fRefunds + 1
               /\ fPath' = "already_failed"
          ELSE /\ UNCHANGED << credits_remaining, fRefunds >>
               /\ fPath' = IF credits_deducted > 0 THEN "refund_error"
                                                   ELSE "already_failed"
    /\ celery_chord_id' = IF credits_deducted > 0 \/ fSnap.token
                          THEN FALSE ELSE celery_chord_id
    /\ fpc' = "done"
    /\ UNCHANGED << userExists, status, nSlides, image_url, text_content, image_gen_prompt, submitVars, unit,
                    results, fSnap, fRuns, cancelVars, regenVars >>
    /\ UNCHANGED << promptVars, billingVars >>

\* The normal path: one commit of status, refund and cleared chord id.  Only
\* attributes that differ from the loaded row are written.
FinalizeNormal ==
    /\ fpc = "read"
    /\ fSnap.status # GENERATION_FAILED
    /\ LET final == final_status(results, actual_images_generated) IN
          /\ status' = IF final = fSnap.status THEN status ELSE final
          /\ IF final = GENERATION_FAILED /\ credits_deducted > 0
             THEN /\ credits_remaining' = Refund(fSnap.credits, credits_deducted)
                  /\ fRefunds' = fRefunds + 1
             ELSE UNCHANGED << credits_remaining, fRefunds >>
    /\ celery_chord_id' = IF fSnap.token THEN FALSE ELSE celery_chord_id
    /\ fpc' = "done"
    /\ fPath' = "normal"
    /\ UNCHANGED << userExists, nSlides, image_url, text_content, image_gen_prompt, submitVars, unit, results,
                    fSnap, fRuns, cancelVars, regenVars >>
    /\ UNCHANGED << promptVars, billingVars >>

\* Mutant: the fallback fails the presentation and refunds whatever its status.
FinalizeFallback_AnyStatus ==
    /\ fpc = "read"
    /\ fSnap.status # GENERATION_FAILED
    /\ status' = GENERATION_FAILED
    /\ celery_chord_id' = FALSE
    /\ credits_remaining' = Refund(credits_remaining, credits_deducted)
    /\ fRefunds' = fRefunds + 1
    /\ fpc' = "done"
    /\ fPath' = "fallback"
    /\ UNCHANGED << userExists, nSlides, image_url, text_content, image_gen_prompt, submitVars, unit,
                    results, fSnap, fRuns, cancelVars, regenVars >>
    /\ UNCHANGED << promptVars, billingVars >>

\* An exception in the normal path: rollback, then the fallback re-reads both
\* rows and fails a presentation that is still pending; the fallback may raise
\* too, which is logged and nothing is written.
FinalizeFallback ==
    /\ fpc = "read"
    /\ fSnap.status # GENERATION_FAILED
    /\ \E fallbackRaises \in BOOLEAN :
          /\ IF ~fallbackRaises /\ status = PENDING_VISUALS
             THEN /\ status' = GENERATION_FAILED
                  /\ celery_chord_id' = FALSE
                  /\ IF userExists /\ credits_deducted > 0
                     THEN /\ credits_remaining' = Refund(credits_remaining, credits_deducted)
                          /\ fRefunds' = fRefunds + 1
                     ELSE UNCHANGED << credits_remaining, fRefunds >>
             ELSE UNCHANGED << status, celery_chord_id, credits_remaining, fRefunds >>
          /\ fPath' = IF fallbackRaises THEN "fallback_error" ELSE "fallback"
    /\ fpc' = "done"
    /\ UNCHANGED << userExists, nSlides, image_url, text_content, image_gen_prompt, submitVars, unit, results,
                    fSnap, fRuns, cancelVars, regenVars >>
    /\ UNCHANGED << promptVars, billingVars >>

\* The broker delivers the callback message again.
Redeliver ==
    /\ fpc = "done"
    /\ fRuns < MaxDeliveries
    /\ fpc' = "queued"
    /\ UNCHANGED << dbVars, submitVars, unit, results, fSnap, fPath, fRuns, fRefunds,
                    cancelVars, regenVars >>
    /\ UNCHANGED << promptVars, billingVars >>

\* ------------------------------------------------------ cancel_presentation
\* chord_res.revoke(terminate=True): best effort; the callback is either
\* stopped (discarded before it starts, or killed before its commit) or not.
RevokeEffect(pc, stopped) ==
    IF stopped /\ pc \in {"none", "queued", "read"} THEN "revoked" ELSE pc

\* num_slides_intended * CREDITS_PER_SLIDE
credits_to_refund(slideCount) == slideCount * CREDITS_PER_SLIDE

\* Mutant: cancel clears the images of the presentation's slides.
CancelledSlides_Cleared(images) == {}

\* The request assigns no attribute of any slide: the slides rows after its
\* commit are the rows before it.
CancelledSlides(images) == images

\* Mutant: the request does not look at the presentation's status.
CancelRead_NoStatusCheck ==
    /\ cpc = "idle"
    /\ status # NO_ROW
    /\ cSnap' = [status |-> status, token |-> celery_chord_id,
                 credits |-> credits_remaining]
    /\ cpc' = "read"
    /\ UNCHANGED << dbVars, submitVars, unit, finalVars, cRefunds, regenVars >>
    /\ UNCHANGED << promptVars, billingVars >>

\* The request loads the user and the presentation; a presentation that is
\* not PENDING_VISUALS ends the request.
CancelRead ==
    /\ cpc = "idle"
    /\ status # NO_ROW
    /\ cSnap' = [status |-> status, token |-> celery_chord_id,
                 credits |-> credits_remaining]
    /\ cpc' = IF status # PENDING_VISUALS THEN "done" ELSE "read"
    /\ UNCHANGED << dbVars, submitVars, unit, finalVars, cRefunds, regenVars >>
    /\ UNCHANGED << promptVars, billingVars >>

\* Mutant: without a chord id the request still refunds by slide count.
CancelNoChordId_Refunds ==
    /\ cpc = "read"
    /\ ~cSnap.token
    /\ status' = GENERATION_FAILED
    /\ credits_remaining' = Refund(cSnap.credits, credits_to_refund(nSlides))
    /\ cRefunds' = cRefunds + 1
    /\ cpc' = "done"
    /\ UNCHANGED << userExists, celery_chord_id, nSlides, image_url, text_content, image_gen_prompt,
                    submitVars, unit, finalVars, cSnap, regenVars >>
    /\ UNCHANGED << promptVars, billingVars >>

\* if not presentation.celery_chord_id: status = GENERATION_FAILED, commit
CancelNoChordId ==
    /\ cpc = "read"
    /\ ~cSnap.token
    /\ status' = GENERATION_FAILED
    /\ image_url' = CancelledSlides(image_url)
    /\ text_content' = text_content
    /\ image_gen_prompt' = image_gen_prompt
    /\ cpc' = "done"
    /\ UNCHANGED << credits_remaining, userExists, celery_chord_id, nSlides,
                    submitVars, unit, finalVars, cSnap, cRefunds, regenVars >>
    /\ UNCHANGED << promptVars, billingVars >>

\* revoke, status = GENERATION_FAILED, refund by slide count, commit
CancelCommit ==
    /\ cpc = "read"
    /\ cSnap.token
    /\ \E stopped \in BOOLEAN : fpc' = RevokeEffect(fpc, stopped)
    /\ status' = GENERATION_FAILED
    /\ IF userExists /\ credits_to_refund(nSlides) > 0
       THEN /\ credits_remaining' = Refund(cSnap.credits, credits_to_refund(nSlides))
            /\ cRefunds' = cRefunds + 1
       ELSE UNCHANGED << credits_remaining, cRefunds >>
    /\ image_url' = CancelledSlides(image_url)
    /\ text_content' = text_content
    /\ image_gen_prompt' = image_gen_prompt
    /\ cpc' = "done"
    /\ UNCHANGED << userExists, celery_chord_id, nSlides, submitVars, unit,
                    results, fSnap, fPath, fRuns, fRefunds, cSnap, regenVars >>
    /\ UNCHANGED << promptVars, billingVars >>

\* except Exception: a revoke that raises leaves the loaded status pending, so
\* the handler commits GENERATION_FAILED without a refund; a commit that raises
\* writes nothing.
CancelRaises ==
    /\ cpc = "read"
    /\ cSnap.token
    /\ \E atCommit \in BOOLEAN, stopped \in BOOLEAN :
          IF atCommit
          THEN /\ fpc' = RevokeEffect(fpc, stopped)
               /\ status' = status
          ELSE /\ fpc' = fpc
               /\ status' = GENERATION_FAILED
    /\ image_url' = CancelledSlides(image_url)
    /\ text_content' = text_content
    /\ image_gen_prompt' = image_gen_prompt
    /\ cpc' = "error"
    /\ UNCHANGED << credits_remaining, userExists, celery_chord_id, nSlides,
                    submitVars, unit, results, fSnap, fPath, fRuns, fRefunds, cSnap,
                    cRefunds, regenVars >>
    /\ UNCHANGED << promptVars, billingVars >>

\* ------------------------------------------------ regenerate_slide_image_api
\* Loads the user, the slide and the presentation; fewer credits than
\* CREDITS_PER_REGENERATE ends the request with 402.
RegenRead ==
    /\ rpc = "idle"
    /\ status # NO_ROW
    /\ \E s \in 1..nSlides :
          IF credits_remaining < CREDITS_PER_REGENERATE
          THEN rpc' = "done" /\ rSnap' = rSnap
          ELSE rpc' = "gen" /\ rSnap' = [slide |-> s, credits |-> credits_remaining]
    /\ UNCHANGED << dbVars, submitVars, unit, finalVars, cancelVars >>
    /\ UNCHANGED << promptVars, billingVars >>

\* Mutant: a successful regeneration also marks the presentation complete.
RegenCommit_CompletesPresentation ==
    /\ rpc = "gen"
    /\ credits_remaining' = Debit(rSnap.credits, CREDITS_PER_REGENERATE)
    /\ image_url' = image_url \cup {rSnap.slide}
    /\ image_gen_prompt' = image_gen_prompt \cup {rSnap.slide}
    /\ text_content' = text_content \cup {rSnap.slide}
    /\ status' = VISUALS_COMPLETE
    /\ rpc' = "debited"
    /\ UNCHANGED << userExists, celery_chord_id, nSlides, submitVars, unit,
                    finalVars, cancelVars, rSnap >>
    /\ UNCHANGED << promptVars, billingVars >>

\* The image was generated: debit, slide text and image are committed together.
RegenCommit ==
    /\ rpc = "gen"
    /\ credits_remaining' = Debit(rSnap.credits, CREDITS_PER_REGENERATE)
    /\ image_url' = image_url \cup {rSnap.slide}
    /\ image_gen_prompt' = image_gen_prompt \cup {rSnap.slide}
    /\ text_content' = text_content \cup {rSnap.slide}
    /\ rpc' = "debited"
    /\ UNCHANGED << userExists, status, celery_chord_id, nSlides, submitVars, unit,
                    finalVars, cancelVars, rSnap >>
    /\ UNCHANGED << promptVars, billingVars >>

\* Mutant: the failed request commits the debit and the text it had assigned.
RegenFails_NoRollback ==
    /\ rpc = "gen"
    /\ credits_remaining' = Debit(rSnap.credits, CREDITS_PER_REGENERATE)
    /\ text_content' = text_content \cup {rSnap.slide}
    /\ image_gen_prompt' = image_gen_prompt
    /\ rpc' = "done"
    /\ UNCHANGED << userExists, status, celery_chord_id, nSlides, image_url,
                    submitVars, unit, finalVars, cancelVars, rSnap >>
    /\ UNCHANGED << promptVars, billingVars >>

\* The generator returned nothing or raised: rollback.
RegenFails ==
    /\ rpc = "gen"
    /\ rpc' = "done"
    /\ UNCHANGED << dbVars, submitVars, unit, finalVars, cancelVars, rSnap >>
    /\ UNCHANGED << promptVars, billingVars >>

\* ------------------------------------------------------- build_image_prompt
MaxSlideNumber == 4

\* creativity_score: the form's 1..10 and one value on each side of it
CreativityScores == 0..11

Range(seq) == {seq[k] : k \in DOMAIN seq}

\* slide_type: "Title" for the first slide, "Closing" for a last slide whose
\* title has a closing keyword, "Content" otherwise
slide_type(slide_number, total_slides, is_likely_closing) ==
    IF slide_number = 1 THEN "Title"
    ELSE IF slide_number = total_slides /\ is_likely_closing THEN "Closing"
    ELSE "Content"

layouts_low == << "Standard", "Standard Reversed" >>

layouts_medium ==
    layouts_low \o << "Top Visual", "Centered Text", "Split Vertical" >>

layouts_high ==
    layouts_medium \o << "Dynamic Integrated", "Creative Split Screen",
                         "Full Background Visual", "Minimalist Focus",
                         "Asymmetric Balance" >>

\* Mutant: the high pool is used from a creativity score of 4.
LayoutPool_HighFromFour(creativity_score) ==
    IF 1 <= creativity_score /\ creativity_score <= 3 THEN layouts_low
    ELSE IF 4 <= creativity_score /\ creativity_score <= 10 THEN layouts_high
    ELSE << >>

\* The list handed to random.choice; no branch is taken outside 1..10 and
\* layout_description stays empty.
LayoutPool(creativity_score) ==
    IF 1 <= creativity_score /\ creativity_score <= 3 THEN layouts_low
    ELSE IF 4 <= creativity_score /\ creativity_score <= 7 THEN layouts_medium
    ELSE IF 8 <= creativity_score /\ creativity_score <= 10 THEN layouts_high
    ELSE << >>

\* The layouts random.choice can return; "" when nothing is chosen.
LayoutChoices(creativity_score) ==
    IF LayoutPool(creativity_score) = << >> THEN {""}
    ELSE Range(LayoutPool(creativity_score))

\* One call: the slide type, the layout chosen, whether " Try a different
\* composition than the previous slide." and " Ensure ample space for the
\* visual." were appended to layout_description, and whether the prompt got
\* its item "9. **Variety:** Use a different visual composition/layout than
\* the previous slide".
BuildImagePrompt ==
    /\ prompt.pc = "args"
    /\ LET type == slide_type(prompt.slide_number, prompt.total_slides,
                              prompt.is_likely_closing)
       IN \E layout \in LayoutChoices(prompt.creativity_score) :
             prompt' = [pc |-> "built",
                        slide_number |-> prompt.slide_number,
                        total_slides |-> prompt.total_slides,
                        is_likely_closing |-> prompt.is_likely_closing,
                        creativity_score |-> prompt.creativity_score,
                        has_body_content |-> prompt.has_body_content,
                        slide_type |-> type,
                        layout |-> IF type = "Content" THEN layout ELSE type,
                        different_composition |->
                            type = "Content" /\ prompt.slide_number > 2,
                        ample_space |->
                            type = "Content" /\ ~prompt.has_body_content,
                        variety_item |-> prompt.slide_number > 1]
    /\ UNCHANGED << dbVars, submitVars, unit, finalVars, cancelVars, regenVars,
                    billingVars >>

\* ------------------------------------------------------------ stripe_webhook
MaxEvents == 2

PriceIds == {"price_pro", "price_creator", "price_other"}

EventStatuses == {"active", "trialing", "past_due", "canceled"}

\* current_app.config['PLAN_NAME_MAP'].get(price_id, 'unknown')
PLAN_NAME_MAP(price_id) ==
    IF price_id = "price_pro" THEN "pro"
    ELSE IF price_id = "price_creator" THEN "creator"
    ELSE "unknown"

\* current_app.config['CREDITS_PER_PLAN'].get(plan_name, 0)
CREDITS_PER_PLAN(plan_name) ==
    IF plan_name = "free" THEN 400
    ELSE IF plan_name = "pro" THEN 1250
    ELSE IF plan_name = "creator" THEN 2500
    ELSE 0

\* plan_actually_changed = new_price_id and (new_price_id != old_user_stripe_price_id)
plan_actually_changed(new_price_id, old_price_id) ==
    new_price_id # "none" /\ new_price_id # old_price_id

\* The customer.subscription.updated branch for a user that was found.  The
\* user's subscription id, status, period end, price id and plan name are
\* assigned from the event first; the credit rules are evaluated on the object
\* so updated; one commit.
StripeSubscriptionUpdated ==
    /\ hook.events < MaxEvents
    /\ \E new_status \in EventStatuses, new_price_id \in PriceIds \cup {"none"} :
          LET old_user_stripe_price_id == subscription.stripe_price_id
              old_user_credits == credits_remaining
              new_plan_name == PLAN_NAME_MAP(new_price_id)
              user == [stripe_price_id |-> new_price_id,
                       subscription_status |-> new_status,
                       subscription_plan_name |-> new_plan_name]
          IN /\ IF plan_actually_changed(new_price_id, old_user_stripe_price_id)
                THEN /\ credits_remaining' =
                           IF new_status \in {"active", "trialing"}
                           THEN old_user_credits + CREDITS_PER_PLAN(new_plan_name)
                           ELSE 0
                     /\ subscription' = user
                ELSE IF /\ new_status \notin {"active", "trialing"}
                        /\ user.subscription_status # new_status
                THEN /\ credits_remaining' = 0
                     /\ subscription' = [user EXCEPT !.subscription_plan_name = "free",
                                                     !.stripe_price_id = "none"]
                ELSE /\ credits_remaining' = credits_remaining
                     /\ subscription' = user
             /\ hook' = [events |-> hook.events + 1,
                         status |-> new_status,
                         price_id |-> new_price_id,
                         previous_status |-> subscription.subscription_status,
                         previous_price_id |-> old_user_stripe_price_id]
    /\ UNCHANGED << userExists, status, celery_chord_id, nSlides, image_url,
                    text_content, image_gen_prompt, submitVars, unit, finalVars,
                    cancelVars, regenVars, promptVars >>

\* ------------------------------------------------------------ specifications
Next ==
    \/ SubmitRejected
    \/ SubmitFailsBeforePersist
    \/ SubmitCommit
    \/ LaunchChord
    \/ StoreChordId
    \/ \E i \in Slides : UnitStart(i)
    \/ \E i \in Slides : UnitSucceed(i)
    \/ \E i \in Slides : UnitHelperNone(i)
    \/ \E i \in Slides : UnitTransient(i)
    \/ \E i \in Slides : UnitUnexpected(i)
    \/ ChordUnlock
    \/ FinalizeRead
    \/ FinalizeAlreadyFailed
    \/ FinalizeNormal
    \/ FinalizeFallback
    \/ CancelRead
    \/ CancelNoChordId
    \/ CancelCommit
    \/ CancelRaises
    \/ RegenRead
    \/ RegenCommit
    \/ RegenFails

Spec == Init /\ [][Next]_vars

\* The callback run on its own, on every combination of its arguments and of
\* the rows it reads, and delivered up to MaxDeliveries times.
MaxResults == 3

Outcomes == {"true", "false", "null"}

ResultLists ==
    UNION {[1..n -> Outcomes] : n \in 0..MaxResults}

FinalizeBalances == {0, 40}

InitFinalize ==
    /\ credits_remaining \in FinalizeBalances
    /\ userExists \in BOOLEAN
    /\ status \in {NO_ROW, PENDING_VISUALS, VISUALS_COMPLETE, GENERATION_FAILED}
    /\ celery_chord_id \in BOOLEAN
    /\ nSlides \in 0..MaxResults
    /\ status = NO_ROW => nSlides = 0
    /\ image_url \in SUBSET (1..nSlides)
    /\ text_content = {}
    /\ image_gen_prompt = image_url
    /\ desired_slide_count \in 0..MaxResults
    /\ credits_deducted = RequiredCredits(desired_slide_count)
    /\ spc = "done"
    /\ unit = [i \in Slides |-> [pc |-> "none", retries |-> 0, deliveries |-> 0,
                                 countdown |-> 0, cause |-> "none"]]
    /\ results \in {[isList |-> TRUE, items |-> l] : l \in ResultLists}
                     \cup {[isList |-> FALSE, items |-> << >>]}
    /\ fpc = "queued"
    /\ fSnap = NoSnap
    /\ fPath = "none"
    /\ fRuns = 0
    /\ cpc = "idle"
    /\ cSnap = NoSnap
    /\ rpc = "idle"
    /\ rSnap = NoRegen
    /\ balance_before_submit = credits_remaining + credits_deducted
    /\ balance_after_submit = credits_remaining
    /\ fRefunds = 0
    /\ cRefunds = 0
    /\ prompt = NoPrompt
    /\ subscription = NoSubscription
    /\ hook = NoHook

NextFinalize ==
    \/ FinalizeRead
    \/ FinalizeAlreadyFailed
    \/ FinalizeNormal
    \/ FinalizeFallback
    \/ Redeliver

SpecFinalize == InitFinalize /\ [][NextFinalize]_vars

\* The slide tasks run on their own, on every combination of the rows they
\* read, each message delivered up to MaxDeliveries times.  NO_ROW stands for
\* a presentation deleted, with its slides, after the batch was launched.
InitUnit ==
    /\ credits_remaining \in FinalizeBalances
    /\ userExists = TRUE
    /\ status \in {NO_ROW, PENDING_VISUALS, VISUALS_COMPLETE, GENERATION_FAILED}
    /\ celery_chord_id = (status # NO_ROW)
    /\ nSlides \in 0..MaxSlides
    /\ (status = NO_ROW) <=> (nSlides = 0)
    /\ image_url \in SUBSET (1..nSlides)
    /\ text_content = {}
    /\ image_gen_prompt = image_url
    /\ desired_slide_count = MaxSlides
    /\ credits_deducted = RequiredCredits(desired_slide_count)
    /\ spc = "done"
    /\ unit = [i \in Slides |-> [pc |-> "queued", retries |-> 0, deliveries |-> 1,
                                 countdown |-> 0, cause |-> "none"]]
    /\ results = NoResults
    /\ fpc = "none"
    /\ fSnap = NoSnap
    /\ fPath = "none"
    /\ fRuns = 0
    /\ cpc = "idle"
    /\ cSnap = NoSnap
    /\ rpc = "idle"
    /\ rSnap = NoRegen
    /\ balance_before_submit = credits_remaining + credits_deducted
    /\ balance_after_submit = credits_remaining
    /\ fRefunds = 0
    /\ cRefunds = 0
    /\ prompt = NoPrompt
    /\ subscription = NoSubscription
    /\ hook = NoHook

NextUnit ==
    \/ \E i \in Slides : UnitStart(i)
    \/ \E i \in Slides : UnitSucceed(i)
    \/ \E i \in Slides : UnitHelperNone(i)
    \/ \E i \in Slides : UnitTransient(i)
    \/ \E i \in Slides : UnitUnexpected(i)
    \/ \E i \in Slides : RedeliverUnit(i)

SpecUnit == InitUnit /\ [][NextUnit]_vars

\* The slide tasks on their own with a database that can also fail while the
\* task loads its rows.
NextRetry ==
    \/ \E i \in Slides : UnitStart(i)
    \/ \E i \in Slides : UnitLoadFails(i)
    \/ \E i \in Slides : UnitSucceed(i)
    \/ \E i \in Slides : UnitHelperNone(i)
    \/ \E i \in Slides : UnitTransient(i)
    \/ \E i \in Slides : UnitUnexpected(i)

SpecRetry == InitUnit /\ [][NextRetry]_vars

\* One cancel_presentation request on its own, on every combination of the
\* rows it reads; the batch is of up to MaxCancelSlides slides, any of them
\* with an image already.
MaxCancelSlides == 5

InitCancel ==
    /\ credits_remaining \in FinalizeBalances
    /\ userExists = TRUE
    /\ status \in {PENDING_VISUALS, VISUALS_COMPLETE, GENERATION_FAILED}
    /\ celery_chord_id \in BOOLEAN
    /\ nSlides \in 1..MaxCancelSlides
    /\ image_url \in SUBSET (1..nSlides)
    /\ text_content = {}
    /\ image_gen_prompt = image_url
    /\ desired_slide_count \in nSlides..MaxCancelSlides
    /\ credits_deducted = RequiredCredits(desired_slide_count)
    /\ spc = "done"
    /\ unit = [i \in Slides |-> [pc |-> "none", retries |-> 0, deliveries |-> 0,
                                 countdown |-> 0, cause |-> "none"]]
    /\ results = NoResults
    /\ fpc = "none"
    /\ fSnap = NoSnap
    /\ fPath = "none"
    /\ fRuns = 0
    /\ cpc = "idle"
    /\ cSnap = NoSnap
    /\ rpc = "idle"
    /\ rSnap = NoRegen
    /\ balance_before_submit = credits_remaining + credits_deducted
    /\ balance_after_submit = credits_remaining
    /\ fRefunds = 0
    /\ cRefunds = 0
    /\ prompt = NoPrompt
    /\ subscription = NoSubscription
    /\ hook = NoHook

NextCancel ==
    \/ CancelRead
    \/ CancelNoChordId
    \/ CancelCommit
    \/ CancelRaises

SpecCancel == InitCancel /\ [][NextCancel]_vars

\* One regenerate_slide_image_api request on its own, on every combination
\* of the rows it reads.
InitRegen ==
    /\ credits_remaining \in FinalizeBalances
    /\ userExists = TRUE
    /\ status \in {PENDING_VISUALS, VISUALS_COMPLETE, GENERATION_FAILED}
    /\ celery_chord_id \in BOOLEAN
    /\ nSlides \in 1..MaxSlides
    /\ image_url \in SUBSET (1..nSlides)
    /\ text_content = {}
    /\ image_gen_prompt = image_url
    /\ desired_slide_count = nSlides
    /\ credits_deducted = RequiredCredits(desired_slide_count)
    /\ spc = "done"
    /\ unit = [i \in Slides |-> [pc |-> "none", retries |-> 0, deliveries |-> 0,
                                 countdown |-> 0, cause |-> "none"]]
    /\ results = NoResults
    /\ fpc = "none"
    /\ fSnap = NoSnap
    /\ fPath = "none"
    /\ fRuns = 0
    /\ cpc = "idle"
    /\ cSnap = NoSnap
    /\ rpc = "idle"
    /\ rSnap = NoRegen
    /\ balance_before_submit = credits_remaining + credits_deducted
    /\ balance_after_submit = credits_remaining
    /\ fRefunds = 0
    /\ cRefunds = 0
    /\ prompt = NoPrompt
    /\ subscription = NoSubscription
    /\ hook = NoHook

NextRegen ==
    \/ RegenRead
    \/ RegenCommit
    \/ RegenFails

SpecRegen == InitRegen /\ [][NextRegen]_vars

\* No submission, batch, cancel or regeneration exists.
NoBatch ==
    /\ userExists = TRUE
    /\ status = NO_ROW
    /\ celery_chord_id = FALSE
    /\ nSlides = 0
    /\ image_url = {}
    /\ text_content = {}
    /\ image_gen_prompt = {}
    /\ desired_slide_count = 0
    /\ credits_deducted = 0
    /\ spc = "idle"
    /\ unit = [i \in Slides |-> [pc |-> "none", retries |-> 0, deliveries |-> 0,
                                 countdown |-> 0, cause |-> "none"]]
    /\ results = NoResults
    /\ fpc = "none"
    /\ fSnap = NoSnap
    /\ fPath = "none"
    /\ fRuns = 0
    /\ cpc = "idle"
    /\ cSnap = NoSnap
    /\ rpc = "idle"
    /\ rSnap = NoRegen
    /\ balance_before_submit = 0
    /\ balance_after_submit = 0
    /\ fRefunds = 0
    /\ cRefunds = 0

\* One call of build_image_prompt on every combination of the arguments that
\* its layout logic reads.
InitPrompt ==
    /\ NoBatch
    /\ credits_remaining = 0
    /\ subscription = NoSubscription
    /\ hook = NoHook
    /\ prompt \in [pc : {"args"},
                   slide_number : 1..MaxSlideNumber,
                   total_slides : 1..MaxSlideNumber,
                   is_likely_closing : BOOLEAN,
                   creativity_score : CreativityScores,
                   has_body_content : BOOLEAN]
    /\ prompt.slide_number <= prompt.total_slides

NextPrompt == BuildImagePrompt

SpecPrompt == InitPrompt /\ [][NextPrompt]_vars

\* customer.subscription.updated events handled one after the other for a user
\* in every combination of balance, price id and subscription status.
WebhookBalances == {0, 400}

InitWebhook ==
    /\ NoBatch
    /\ credits_remaining \in WebhookBalances
    /\ prompt = NoPrompt
    /\ hook = NoHook
    /\ \E price_id \in {"none", "price_pro", "price_creator"},
          user_status \in EventStatuses \cup {"none"} :
          subscription = [stripe_price_id |-> price_id,
                          subscription_status |-> user_status,
                          subscription_plan_name |->
                              IF price_id = "none" THEN "free"
                              ELSE PLAN_NAME_MAP(price_id)]

NextWebhook == StripeSubscriptionUpdated

SpecWebhook == InitWebhook /\ [][NextWebhook]_vars


\* =================================================================== claims
Images == Cardinality(image_url)

TrueCount ==
    IF results.isList
    THEN Cardinality({k \in DOMAIN results.items : results.items[k] = "true"})
    ELSE 0

FinalizerFinished == fpc = "done" /\ fPath \in {"normal", "already_failed"}

CancelFinished == cpc \in {"idle", "done", "error"}

\* C1: a batch whose presentation ended GENERATION_FAILED, with the finalizer
\* finished (no database fault) and no cancel request in flight and no
\* regeneration, has the user's balance at balance_after_submit + creditsDebited.
C1_FullRestorationOnFailure ==
    (status = GENERATION_FAILED /\ FinalizerFinished /\ CancelFinished /\ rpc = "idle")
        => credits_remaining = balance_after_submit + credits_deducted

\* C2: the finalizer delivered twice for the same batch applies at most one refund.
C2_RedeliveryRefundsOnce ==
    (fRuns = 2 /\ fpc = "done") => fRefunds <= 1

\* C3: under every interleaving of cancel_presentation and the finalizer, the
\* refunds applied for the batch by the two together are a single refund.
C3_CancelAndFinalizerRefundOnce ==
    fRefunds + cRefunds <= 1

\* C4: a presentation whose status is VISUALS_COMPLETE or GENERATION_FAILED
\* never changes status again.
C4_TerminalStatusIsFinal ==
    [][(status \in {VISUALS_COMPLETE, GENERATION_FAILED}) => (status' = status)]_vars

\* C5: after a run of the finalizer's normal path (presentation and user exist,
\* presentation not loaded as GENERATION_FAILED) the status is VISUALS_COMPLETE
\* if successCount > 0 and actualImages >= successCount, and GENERATION_FAILED
\* otherwise, successCount being the number of true entries of a list of outcomes.
C5_AggregationRule ==
    (fpc = "done" /\ fPath = "normal")
        => status = IF TrueCount > 0 /\ Images >= TrueCount
                    THEN VISUALS_COMPLETE ELSE GENERATION_FAILED

C5_Witness ==
    /\ fpc = "done" /\ fPath = "normal"
    /\ results = [isList |-> TRUE, items |-> <<"true", "true", "false">>]
    /\ nSlides = 3 /\ Images = 2
    /\ status = VISUALS_COMPLETE

C6_Case ==
    /\ fpc = "done" /\ fPath = "normal" /\ fRuns = 1
    /\ results = [isList |-> TRUE, items |-> <<"true", "false", "false">>]
    /\ nSlides = 3 /\ Images = 1

C7_DebitAtSubmission ==
    (spc \in {"committed", "launched", "done"})
        => /\ credits_deducted = desired_slide_count * CREDITS_PER_SLIDE
           /\ balance_after_submit + credits_deducted = balance_before_submit
           /\ balance_after_submit >= 0
           /\ (spc = "committed" /\ rpc = "idle")
                 => /\ credits_remaining = balance_after_submit
                    /\ \A i \in Slides : unit[i].pc = "none"

C7_Witness ==
    /\ spc = "committed" /\ rpc = "idle"
    /\ desired_slide_count = 2
    /\ balance_before_submit = 100 /\ credits_remaining = 50

\* C8: a batch whose presentation ended VISUALS_COMPLETE had no refund applied
\* by the finalizer or by cancel_presentation, and (no regeneration) the balance
\* is balance_after_submit.
C8_NoRefundWhenComplete ==
    (status = VISUALS_COMPLETE /\ fpc = "done")
        => /\ fRefunds + cRefunds = 0
           /\ (rpc = "idle" => credits_remaining = balance_after_submit)

\* C9: a run of the finalizer's normal path that decided failure leaves
\* GENERATION_FAILED and the balance it found plus exactly creditsDebited.
C9_FailureRefundsDebitedAmount ==
    (fpc = "done" /\ fPath = "normal" /\ fRuns = 1
       /\ ~(TrueCount > 0 /\ Images >= TrueCount))
        => /\ status = GENERATION_FAILED
           /\ credits_remaining = balance_after_submit + credits_deducted
           /\ fRefunds = IF credits_deducted > 0 THEN 1 ELSE 0

C9_Witness ==
    /\ fpc = "done" /\ fPath = "normal" /\ fRuns = 1
    /\ results = [isList |-> TRUE, items |-> <<"false", "false">>]
    /\ Images = 0 /\ nSlides = 2
    /\ credits_deducted = RequiredCredits(3)
    /\ balance_after_submit = 40 /\ credits_remaining = 115
    /\ status = GENERATION_FAILED

\* C10: for a batch that is not cancelled, the finalizer only starts once every
\* task of the batch is terminal, with one outcome per task, and once the chord
\* is resolved it has run exactly once.
C10_FinalizerRunsOnceAfterAllUnits ==
    (cpc = "idle")
        => /\ (fpc \in {"queued", "read", "done"})
                 => (AllUnitsTerminal /\ Len(results.items) = nSlides)
           /\ fRuns <= 1
           /\ (fpc \in {"done", "chord_error"}) => fRuns = 1

\* Fair scheduling: the request that committed a batch goes on to launch it,
\* the workers run every queued slide task and every queued callback to their
\* end, and the chord resolves.  Requests of the user (cancel, regenerate) are
\* not forced.
UnitStep(i) ==
    UnitSucceed(i) \/ UnitHelperNone(i) \/ UnitTransient(i) \/ UnitUnexpected(i)

FinalizeStep == FinalizeAlreadyFailed \/ FinalizeNormal \/ FinalizeFallback

Fairness ==
    /\ WF_vars(LaunchChord)
    /\ WF_vars(StoreChordId)
    /\ \A i \in Slides : WF_vars(UnitStart(i)) /\ WF_vars(UnitStep(i))
    /\ WF_vars(ChordUnlock)
    /\ WF_vars(FinalizeRead)
    /\ WF_vars(FinalizeStep)

SpecLive == Init /\ [][Next]_vars /\ Fairness

\* The callback's normal path and its fallback both failed.
FinalizerGaveUp == fpc = "done" /\ fPath = "fallback_error" /\ status = PENDING_VISUALS

\* C11: under fair scheduling of the slide tasks and the finalizer, a
\* presentation in PENDING_VISUALS eventually is VISUALS_COMPLETE or
\* GENERATION_FAILED, unless the finalizer's normal path and fallback both
\* failed (or a cancel request, which revokes the finalizer, was made).
C11_EventuallyTerminal ==
    (status = PENDING_VISUALS)
        ~> \/ status \in {VISUALS_COMPLETE, GENERATION_FAILED}
           \/ FinalizerGaveUp
           \/ cpc # "idle"

\* The balance the persisted row holds if no committed debit or refund was
\* lost: the balance before the submission, minus the accepted debits, plus
\* the refunds the finalizer and cancel_presentation committed.
Ledger ==
    balance_before_submit - credits_deducted
        - (IF rpc = "debited" THEN CREDITS_PER_REGENERATE ELSE 0)
        + fRefunds * credits_deducted
        + cRefunds * credits_to_refund(nSlides)

\* C12: under every interleaving of debits (submission, regeneration) and
\* refunds (finalizer, cancel_presentation) no balance update is lost: the
\* persisted balance is the initial balance minus all accepted debits plus all
\* applied refunds.
C12_NoLostUpdate ==
    (spc \notin {"idle", "failed_early"}) => credits_remaining = Ledger

\* C13: a submission whose slide count x CREDITS_PER_SLIDE exceeds the balance
\* is rejected with the balance unchanged, no presentation, no slides and no
\* task; no submission is accepted on a balance that does not cover it.
C13_InsufficientCreditsRejected ==
    /\ (spc = "rejected")
          => /\ balance_before_submit < desired_slide_count * CREDITS_PER_SLIDE
             /\ credits_remaining = balance_before_submit
             /\ credits_deducted = 0
             /\ status = NO_ROW /\ nSlides = 0 /\ image_url = {}
             /\ \A i \in Slides : unit[i].pc = "none"
             /\ fpc = "none"
    /\ (spc \in {"committed", "launched", "done"})
          => balance_before_submit >= desired_slide_count * CREDITS_PER_SLIDE

C13_Witness ==
    /\ spc = "rejected"
    /\ desired_slide_count = 1
    /\ balance_before_submit = 10 /\ credits_remaining = 10
    /\ status = NO_ROW

\* C14: credits_remaining is never negative, under every interleaving of
\* submission, regeneration, refunds and cancellation.
C14_BalanceNonNegative == credits_remaining >= 0

\* Both debits accepted, the second on the smallest balance that covers it.
C14_Witness ==
    /\ spc = "done" /\ rpc = "debited"
    /\ balance_after_submit = 50 /\ rSnap.credits = 50
    /\ fRefunds + cRefunds = 0
    /\ credits_remaining = 25

\* C15: a run of the slide task on a slide that already has an image returns
\* true without entering the generation (no generator call) and leaves the
\* slide, the presentation and the balance as they were; every run, the first
\* delivery and every later one alike.
C15_SkipWhenImageExists ==
    [][\A i \in Slides :
          (unit[i].pc = "queued" /\ unit'[i].pc # "queued" /\ i \in image_url)
              => (unit'[i].pc = "true" /\ UNCHANGED dbVars)]_vars

\* A second delivery skipped: the slide had its image when the first run ended
\* true, and the second run ended true with the rows as they were.
C15_Witness ==
    /\ unit[1].deliveries = 2 /\ unit[1].pc = "true" /\ unit[1].retries = 0
    /\ 1 \in image_url
    /\ unit[2].pc = "queued"
    /\ status = PENDING_VISUALS
    /\ credits_remaining = balance_after_submit

\* The cancel request found the presentation PENDING_VISUALS with a chord id
\* and went through to its commit.
CancelCompleted ==
    cpc = "done" /\ cSnap.status = PENDING_VISUALS /\ cSnap.token

\* C16: cancel_presentation on a PENDING_VISUALS presentation with a chord id
\* sets GENERATION_FAILED and adds (number of slides of the presentation) x
\* CREDITS_PER_SLIDE to the balance, whatever number of them have an image.
C16_CancelRefundsBySlideCount ==
    CancelCompleted
        => /\ status = GENERATION_FAILED
           /\ credits_remaining = balance_after_submit + nSlides * CREDITS_PER_SLIDE
           /\ cRefunds = 1

C16_Witness ==
    /\ CancelCompleted
    /\ nSlides = 5 /\ Images = 2
    /\ balance_after_submit = 40
    /\ credits_remaining = 40 + 5 * CREDITS_PER_SLIDE
    /\ status = GENERATION_FAILED

\* C17: no step of cancel_presentation changes a slide: the slides and their
\* images (written together with prompt and applied style by the slide task's
\* commit) are after the step what they were before it.
C17_CancelLeavesSlides ==
    [][(cpc' # cpc) => (image_url' = image_url /\ nSlides' = nSlides)]_vars

\* Slide 1's task committed its image, then the cancel committed.
C17_Witness ==
    /\ cpc = "done" /\ cRefunds = 1
    /\ unit[1].pc = "true" /\ image_url = {1}
    /\ nSlides = 2 /\ unit[2].pc = "queued"
    /\ rpc = "idle"
    /\ status = GENERATION_FAILED

\* C18: in every reachable state a presentation in PENDING_VISUALS has a
\* chord id, also between the commit that persists it and the launch.
C18_PendingHasToken ==
    (status = PENDING_VISUALS) => celery_chord_id

\* C19: once the batch is finalized and the submission request has ended, a
\* presentation in VISUALS_COMPLETE or GENERATION_FAILED has no chord id,
\* whichever of the finalizer's commit and the request's write of the chord id
\* came first (no cancel request made).
C19_FinalizedTokenCleared ==
    (FinalizerFinished /\ spc = "done" /\ cpc = "idle"
       /\ status \in {VISUALS_COMPLETE, GENERATION_FAILED})
        => ~celery_chord_id

\* C20: after cancel_presentation went through on a PENDING_VISUALS
\* presentation that had a chord id, the presentation has no chord id.
C20_CancelClearsToken ==
    CancelCompleted => ~celery_chord_id

\* C21: cancel_presentation on a presentation that is not PENDING_VISUALS
\* ends at once: status, chord id, slides and balance are unchanged, nothing
\* is refunded and the callback is not revoked.
C21_CancelNotPendingIsNoOp ==
    [][(cpc = "idle" /\ cpc' # "idle" /\ status # PENDING_VISUALS)
          => (cpc' = "done" /\ UNCHANGED << dbVars, fpc, cRefunds >>)]_vars

C21_Witness ==
    /\ cpc = "done" /\ cSnap.status = VISUALS_COMPLETE
    /\ status = VISUALS_COMPLETE /\ celery_chord_id
    /\ nSlides = 3 /\ Images = 2
    /\ credits_remaining = balance_after_submit /\ cRefunds = 0
    /\ fpc = "none"

\* C22: cancel_presentation on a PENDING_VISUALS presentation without a chord
\* id sets GENERATION_FAILED, revokes nothing and leaves the balance as it was.
C22_CancelWithoutTokenFailsOnly ==
    (cpc = "done" /\ cSnap.status = PENDING_VISUALS /\ ~cSnap.token)
        => /\ status = GENERATION_FAILED
           /\ credits_remaining = balance_after_submit
           /\ cRefunds = 0
           /\ fpc = "none"
           /\ ~celery_chord_id

C22_Witness ==
    /\ cpc = "done" /\ cSnap.status = PENDING_VISUALS /\ ~cSnap.token
    /\ status = GENERATION_FAILED
    /\ nSlides = 2 /\ balance_after_submit = 40 /\ credits_remaining = 40

\* C23: no step of regenerate_slide_image_api changes the presentation's
\* status or chord id, whatever the status and whether it succeeds or fails.
C23_RegenLeavesPresentation ==
    [][(rpc' # rpc) => (status' = status /\ celery_chord_id' = celery_chord_id)]_vars

\* A regeneration committed while the batch was still pending.
C23_Witness ==
    /\ rpc = "debited" /\ rSnap.slide \in image_url
    /\ status = PENDING_VISUALS /\ celery_chord_id
    /\ cpc = "idle" /\ fpc = "none"

\* C24: a regeneration changes the balance by exactly -CREDITS_PER_REGENERATE
\* when it succeeds and by 0 when it is rejected or the generation fails; when
\* it does not succeed, the slide's title, text and image are left as they were.
C24_RegenDebitsOnSuccessOnly ==
    [][(rpc' # rpc)
          => \/ /\ rpc' = "debited"
                /\ credits_remaining' = credits_remaining - CREDITS_PER_REGENERATE
             \/ /\ rpc' # "debited"
                /\ credits_remaining' = credits_remaining
                /\ image_url' = image_url
                /\ text_content' = text_content]_vars

\* The generation failed after the request had assigned the debit and the text.
C24_Witness ==
    /\ rpc = "done" /\ rSnap.slide = 1 /\ rSnap.credits = 40
    /\ credits_remaining = 40
    /\ text_content = {} /\ image_url = {}

\* C25: a submission that fails before the presentation is persisted leaves
\* the balance at its value before the request.
C25_EarlyFailureRestoresBalance ==
    (spc = "failed_early") => credits_remaining = balance_before_submit

\* C26: a slide task that exhausts its retries on a transient error returns
\* false (and marks the presentation failed); it never ends by raising.
C26_ExhaustionReturnsFalse ==
    \A i \in Slides : unit[i].pc # "raised"

\* A run of slide i's task starts while its presentation is GENERATION_FAILED.
StartsWhileFailed(i) ==
    /\ unit[i].pc = "queued" /\ unit'[i].pc # "queued"
    /\ i <= nSlides /\ status = GENERATION_FAILED

\* The run ended at once with false: no generation, no retry, nothing written.
SkippedFalse(i) ==
    /\ unit'[i].pc = "false"
    /\ unit'[i].retries = unit[i].retries
    /\ UNCHANGED dbVars

\* C27 as stated: every slide task that starts while its presentation is
\* GENERATION_FAILED returns false without generating, retrying or writing.
C27_AsStated ==
    [][\A i \in Slides : StartsWhileFailed(i) => SkippedFalse(i)]_vars

\* C27, amended: a slide task that starts while its presentation is
\* GENERATION_FAILED, on a slide that has no image, returns false without
\* generating, retrying or writing.
C27_SkipWhenPresentationFailed ==
    [][\A i \in Slides :
          (StartsWhileFailed(i) /\ i \notin image_url) => SkippedFalse(i)]_vars

\* Slide 1 has an image, slide 2 has none; the presentation was failed before
\* slide 2's task started, and that task ended false on its first attempt.
C27_Witness ==
    /\ status = GENERATION_FAILED
    /\ image_url = {1} /\ nSlides = 2
    /\ unit[1].pc = "true"
    /\ unit[2].pc = "false" /\ unit[2].retries = 0 /\ unit[2].deliveries = 1
    /\ credits_remaining = balance_after_submit

\* C28: once a finalizer run through its normal path or its already-failed
\* branch has ended (no cancel request made), the chord id is null, and after
\* the normal path a GENERATION_FAILED presentation has its refund applied:
\* status, refund and cleared chord id are visible together.
C28_FinalizerCommitsTogether ==
    (FinalizerFinished /\ cpc = "idle")
        => /\ ~celery_chord_id
           /\ (fPath = "normal" /\ status = GENERATION_FAILED /\ credits_deducted > 0)
                 => fRefunds = 1

\* C29: a finalizer run whose normal path raised ends in the fallback: if the
\* presentation is still PENDING_VISUALS it is GENERATION_FAILED afterwards,
\* the chord id is null and creditsDebited is refunded once; otherwise, and
\* when the fallback itself raised, nothing has changed and the run has ended.
C29_FallbackFailsPendingOnly ==
    (fpc = "done" /\ fRuns = 1)
        => /\ (fPath = "fallback" /\ fSnap.status = PENDING_VISUALS)
                 => /\ status = GENERATION_FAILED
                    /\ ~celery_chord_id
                    /\ credits_remaining = balance_after_submit + credits_deducted
                    /\ fRefunds = IF credits_deducted > 0 THEN 1 ELSE 0
           /\ (fPath = "fallback_error" \/ (fPath = "fallback" /\ fSnap.status # PENDING_VISUALS))
                 => /\ status = fSnap.status
                    /\ celery_chord_id = fSnap.token
                    /\ credits_remaining = balance_after_submit
                    /\ fRefunds = 0

C29_Witness ==
    /\ fpc = "done" /\ fRuns = 1 /\ fPath = "fallback"
    /\ fSnap.status = PENDING_VISUALS /\ fSnap.token
    /\ status = GENERATION_FAILED /\ ~celery_chord_id
    /\ credits_deducted = RequiredCredits(2)
    /\ balance_after_submit = 40 /\ credits_remaining = 90

\* C30: a finalizer run that finds the user missing leaves the presentation
\* GENERATION_FAILED with a null chord id and no refund, whatever status the
\* presentation had.
C30_MissingUserForcesFailed ==
    (fpc = "done" /\ fPath = "no_user" /\ fRuns = 1)
        => /\ status = GENERATION_FAILED
           /\ ~celery_chord_id
           /\ fRefunds = 0
           /\ credits_remaining = balance_after_submit

\* A step of a run of slide i's task that does not end the run with true: the
\* run starts, returns false, asks for a retry, or ends by raising once the
\* retries are used up.
FailedRunStep(i) ==
    /\ unit[i].pc \in {"queued", "running"}
    /\ unit'[i] # unit[i]
    /\ unit'[i].pc # "true"

\* The slide's image_url, image_gen_prompt and applied_style_info are as before.
SlideUntouched(i) ==
    /\ (i \in image_url') <=> (i \in image_url)
    /\ (i \in image_gen_prompt') <=> (i \in image_gen_prompt)

\* C31: a run of a slide task that returns false or asks for a retry leaves the
\* slide's image reference, generation prompt and applied style as they were
\* before the run (no step of such a run writes the slide).
C31_FailedRunLeavesSlide ==
    [][\A i \in Slides : FailedRunStep(i) => SlideUntouched(i)]_vars

\* Slide 1's task asked for a retry, ran again and returned false; slide 1 has
\* no image, no prompt and no style.
C31_Witness ==
    /\ unit[1].pc = "false" /\ unit[1].retries = 1
    /\ status = PENDING_VISUALS
    /\ 1 \notin image_url /\ 1 \notin image_gen_prompt

\* C32: a slide task returns true only when its slide has an image reference at
\* that moment, and in every reachable state a slide has its image reference,
\* its generation prompt and its applied style all set or all null.
C32_TrueOnlyWithImageAllOrNothing ==
    /\ [](image_gen_prompt = image_url)
    /\ [][\A i \in Slides :
             (unit[i].pc # "true" /\ unit'[i].pc = "true") => i \in image_url']_vars

\* Slide 1's task generated and returned true with the three attributes set
\* while slide 2's task is still generating with none of them set.
C32_Witness ==
    /\ unit[1].pc = "true" /\ unit[1].deliveries = 1
    /\ 1 \in image_url /\ 1 \in image_gen_prompt
    /\ unit[2].pc = "running"
    /\ 2 \notin image_url /\ 2 \notin image_gen_prompt
    /\ rpc = "idle" /\ rSnap = NoRegen

\* Some slide task of the batch ended by raising after its retries on a
\* transient error were used up.
RetriesExhausted ==
    \E i \in 1..nSlides : unit[i].pc = "raised" /\ unit[i].retries = max_retries

\* A slide task's except Exception handler has failed the presentation: it is
\* GENERATION_FAILED before any run of the finalizer and without any cancel.
FastFailed ==
    /\ spc \in {"launched", "done"}
    /\ status = GENERATION_FAILED /\ fRuns = 0 /\ cpc = "idle"

\* C33: an exception in the try block that is no rate-limit, provider or
\* database error ends the run with false and without a retry (the step that
\* fast-fails the presentation is that handler's); a slide task never ends by
\* raising on such an exception, and under fair scheduling the chord of the
\* batch then resolves and the finalizer runs, unless a cancel request revoked
\* the callback.
C33_UnexpectedEndsFalse ==
    /\ [](\A i \in Slides : unit[i].pc = "raised" => unit[i].retries = max_retries)
    /\ [][\A i \in Slides :
             (unit[i].pc = "running" /\ unit'[i] # unit[i] /\ status' # status)
                 => (unit'[i].pc = "false" /\ unit'[i].retries = unit[i].retries)]_vars
    /\ FastFailed ~> (fRuns > 0 \/ cpc # "idle")

\* C38: the step of a slide task that changes the presentation's status makes
\* it GENERATION_FAILED; a slide task that starts on a slide without an image
\* while the presentation is GENERATION_FAILED skips; and once a slide task has
\* fast-failed the presentation the finalizer, under fair scheduling, goes
\* through its already-failed path and refunds credits_deducted, the images of
\* the tasks that succeeded staying persisted (unless a cancel request was made
\* or the refund's commit raised).
C38_FastFailThenFullRefund ==
    /\ [][\A i \in Slides :
             /\ (unit'[i] # unit[i] /\ status' # status)
                    => (status' = GENERATION_FAILED /\ image_url' = image_url)
             /\ (StartsWhileFailed(i) /\ i \notin image_url) => SkippedFalse(i)]_vars
    /\ FastFailed
           ~> \/ /\ fpc = "done" /\ fPath = "already_failed"
                 /\ status = GENERATION_FAILED /\ fRefunds = 1
              \/ fPath = "refund_error"
              \/ cpc # "idle"

\* The kinds of transient error other than rate limiting.
OtherTransient == {"OpenAIError", "SQLAlchemyError", "SQLAlchemyError_load"}

\* At most max_retries re-runs, and the countdown of a retry after rate limiting
\* is 60 * 2^k for the k-th retry (k = 0, 1, 2), never above 600.
RateLimitSchedule(u) ==
    /\ u.retries <= max_retries
    /\ u.cause = "RateLimitError"
          => /\ u.countdown = 60 * (2 ^ (u.retries - 1))
             /\ u.countdown \in {60, 120, 240}
             /\ u.countdown <= 600

\* C34 as stated: the retry schedule is bounded as above and the countdown after
\* any other transient provider or database error is 30 seconds.
C34_AsStated ==
    \A i \in Slides :
        /\ RateLimitSchedule(unit[i])
        /\ unit[i].cause \in OtherTransient => unit[i].countdown = 30

\* What the code keeps of C34: the retry schedule is bounded as above; the
\* countdown after an OpenAIError or SQLAlchemyError raised inside the try block
\* is 30 seconds, and after a SQLAlchemyError raised while the task loads its
\* rows it is the 60 seconds of TASK_RETRY_KWARGS.
C34_RetryScheduleBounded ==
    \A i \in Slides :
        /\ RateLimitSchedule(unit[i])
        /\ unit[i].cause \in {"OpenAIError", "SQLAlchemyError"} => unit[i].countdown = 30
        /\ unit[i].cause = "SQLAlchemyError_load" => unit[i].countdown = 60

\* Slide 1's task waits for its third retry after rate limiting, 240 seconds;
\* slide 2's task waits 60 seconds after the database failed at its load, on
\* its second retry.
C34_Witness ==
    /\ nSlides = 2 /\ status = PENDING_VISUALS
    /\ unit[1].pc = "queued" /\ unit[1].retries = 3
    /\ unit[1].cause = "RateLimitError" /\ unit[1].countdown = 240
    /\ unit[2].pc = "queued" /\ unit[2].retries = 2
    /\ unit[2].cause = "SQLAlchemyError_load" /\ unit[2].countdown = 60

\* Slide j's row is written in this step: its image reference, prompt and style
\* go from null to set.
SlideWritten(j) ==
    \/ j \in image_url' /\ j \notin image_url
    \/ j \in image_gen_prompt' /\ j \notin image_gen_prompt

\* C35: a launched batch has one slide task for each persisted slide and none
\* for any other id, and a step of the slide tasks that writes a slide row is
\* the step of that slide's own task, ending its run with true, while no other
\* task moves and no other slide is written.
C35_OneUnitPerSlideOwnRowOnly ==
    /\ [](\A i \in Slides :
             /\ spc \in {"launched", "done"} => ((unit[i].pc # "none") <=> (i <= nSlides))
             /\ spc \notin {"launched", "done"} => unit[i].pc = "none")
    /\ [][\A j \in Slides :
             (SlideWritten(j) /\ unit' # unit)
                 => /\ unit[j].pc = "running" /\ unit'[j].pc = "true"
                    /\ \A k \in Slides \ {j} : unit'[k] = unit[k] /\ ~SlideWritten(k)]_vars

\* A batch of two slides ran: each slide's task was delivered once, ended true
\* and left its own slide with an image; no regeneration took part.
C35_Witness ==
    /\ nSlides = 2 /\ spc = "done"
    /\ \A i \in 1..2 : unit[i].pc = "true" /\ unit[i].deliveries = 1 /\ unit[i].retries = 0
    /\ image_url = {1, 2} /\ image_gen_prompt = {1, 2}
    /\ rpc = "idle" /\ rSnap = NoRegen

\* A run of slide i's task starts while the slide's row, or the presentation
\* with all its slides, does not exist.
StartsWithoutRow(i) ==
    /\ unit[i].pc = "queued" /\ unit'[i].pc # "queued"
    /\ (i > nSlides \/ status = NO_ROW)

C37_Case ==
    /\ fpc = "done" /\ fRuns = 1
    /\ TrueCount > 0 /\ Images >= TrueCount

\* C37 as stated: whatever the number of slides expected and of failed tasks,
\* such a batch ends VISUALS_COMPLETE with no refund.
C37_AsStated ==
    (C37_Case /\ FinalizerFinished)
        => (status = VISUALS_COMPLETE /\ fRefunds = 0)

\* C37, amended: whatever the number of slides expected and of failed tasks,
\* such a batch ends VISUALS_COMPLETE with no refund when the finalizer loaded
\* the presentation not already GENERATION_FAILED (its normal path).
C37_DecisionIgnoresExpectedCount ==
    (C37_Case /\ fPath = "normal")
        => /\ status = VISUALS_COMPLETE
           /\ fRefunds = 0
           /\ credits_remaining = balance_after_submit

\* Three slides expected and debited, two tasks reported, one of them true, two
\* images persisted: complete, balance untouched.
C37_Witness ==
    /\ C37_Case /\ fPath = "normal"
    /\ results = [isList |-> TRUE, items |-> <<"false", "true">>]
    /\ nSlides = 3 /\ Images = 2
    /\ credits_deducted = RequiredCredits(3)
    /\ status = VISUALS_COMPLETE
    /\ credits_remaining = 40 /\ balance_after_submit = 40

\* The call was for a content slide: not the first slide, and not a last slide
\* with a closing title.
ContentSlideBuilt ==
    /\ prompt.pc = "built"
    /\ prompt.slide_number # 1
    /\ ~(prompt.slide_number = prompt.total_slides /\ prompt.is_likely_closing)

\* C39: for a content slide build_image_prompt takes the layout from
\* layouts_low when creativity_score is 1..3, from layouts_medium when 4..7 and
\* from layouts_high when 8..10, layouts_low being part of layouts_medium and
\* layouts_medium of layouts_high; " Try a different composition than the
\* previous slide." is appended to the layout description exactly when
\* slide_number > 2.
C39_LayoutPoolByCreativity ==
    ContentSlideBuilt
        => /\ prompt.slide_type = "Content"
           /\ prompt.creativity_score \in 1..3 => prompt.layout \in Range(layouts_low)
           /\ prompt.creativity_score \in 4..7 => prompt.layout \in Range(layouts_medium)
           /\ prompt.creativity_score \in 8..10 => prompt.layout \in Range(layouts_high)
           /\ Range(layouts_low) \subseteq Range(layouts_medium)
           /\ Range(layouts_medium) \subseteq Range(layouts_high)
           /\ prompt.different_composition <=> (prompt.slide_number > 2)

\* Slide 3 of 4 at creativity 2 got a layout of the low pool with the sentence
\* appended.
C39_Witness ==
    /\ ContentSlideBuilt
    /\ prompt.slide_number = 3 /\ prompt.total_slides = 4
    /\ prompt.creativity_score = 2
    /\ prompt.layout = "Standard Reversed"
    /\ prompt.different_composition

\* The last customer.subscription.updated event kept the user's price id and
\* brought a status that is neither active nor trialing and differs from the
\* status the user had before it.
StatusLapsedPlanUnchanged ==
    /\ hook.events > 0
    /\ hook.price_id = hook.previous_price_id
    /\ hook.status \notin {"active", "trialing"}
    /\ hook.previous_status # hook.status

\* C40: after a customer.subscription.updated event with an unchanged price id
\* and a new status that is neither active nor trialing and differs from the
\* user's previous status, the user's credits_remaining is 0 and the plan name
\* is 'free'.
C40_StatusLapseZeroesCredits ==
    StatusLapsedPlanUnchanged
        => /\ credits_remaining = 0
           /\ subscription.subscription_plan_name = "free"

====
